---- MODULE Spec2Model ----
(***************************************************************************)
(* SecondaryTableController (netd): per-network secondary routing tables,  *)
(* fwmark policy routing, UID rules and host exemptions.                   *)
(*                                                                         *)
(* The controller owns one piece of memory, mNetIdRuleCount, and drives    *)
(* the kernel through external commands (ip, iptables).  The kernel is     *)
(* modelled as the tables those commands act on; every command can also    *)
(* fail spuriously (an injected fault), in which case it has no effect.    *)
(* An execIptables(V4V6, ...) call is one step on a dual-stack table.      *)
(***************************************************************************)
EXTENDS Integers, Sequences, FiniteSets, TLC

VARIABLES k, mNetIdRuleCount, mUidMap, last, prev, faultsLeft, thr

vars == <<k, mNetIdRuleCount, mUidMap, last, prev, faultsLeft, thr>>

----------------------------------------------------------------------------
(* Bounds of the model.                                                    *)

MaxCount == 2

MaxDup == 2

MaxFaults == 1

----------------------------------------------------------------------------
(* Program constants.                                                      *)

BASE_TABLE_NUMBER == 1000

NETID_UNSET == 0

PROTECT_MARK == 1

RULE_PRIO == "20000"

EXEMPT_PRIO == "99"

\* The table the name "main" denotes to ip.
MainTable == 254

ADD == "add"

DEL == "del"

IP_PATH == "/system/bin/ip"

V4 == "V4"

V6 == "V6"

V4V6 == "V4V6"

LOCAL_MANGLE_OUTPUT == <<"st_mangle_OUTPUT">>

LOCAL_MANGLE_EXEMPT == <<"st_mangle_EXEMPT">>

LOCAL_NAT_POSTROUTING == <<"st_nat_POSTROUTING">>

LOCAL_FILTER_OUTPUT == <<"st_filter_OUTPUT">>

\* snprintf(chain_str, ..., "st_mangle_%s_OUTPUT", iface): a name is the
\* sequence of its pieces, so that distinct interfaces give distinct chains.
LOCAL_MANGLE_IFACE_FORMAT(iface) == <<"st_mangle_", iface, "_OUTPUT">>

EBUSY == "EBUSY"

ENODEV == "ENODEV"

EINVAL == "EINVAL"

NOERR == "unset"

----------------------------------------------------------------------------
(* The world around the controller.                                        *)

\* Interfaces a caller may name: one the registry knows, one it does not.
Ifaces == {"tun0", "wlan9"}

KnownIfaces == {"tun0"}

\* Network devices present in the kernel.
Devs == {"tun0"}

NetIdOf == [i \in KnownIfaces |-> 5]

\* NetworkController::getNetworkId: the id of a known interface; for an
\* unknown one the lookup fails and the caller receives NETID_UNSET.
getNetworkId(iface) ==
  IF iface \in KnownIfaces THEN NetIdOf[iface] ELSE NETID_UNSET

ResolveFails(iface) == iface \notin KnownIfaces

UnknownIfaces == {i \in Ifaces : ResolveFails(i)}

NetIds == {getNetworkId(i) : i \in Ifaces}

\* "%u" of netId + BASE_TABLE_NUMBER; the decimal text is kept as the number
\* it denotes (the ids of the model are far from the 32-bit wrap).
tableFor(netId) == netId + BASE_TABLE_NUMBER

Dests == {"10.1.0.0"}

Prefixes == {16}

Gateways == {"::", "10.1.0.1"}

FromAddrs == {"fd00::7"}

FwmarkDests == {"10.1.0.0", "fd00::"}

UidRanges == {<<10000, 10999>>, <<10500, 10600>>}

LocalAddrs == {"10.1.0.7"}

Hosts == {"10.9.9.9", "fd00::9"}

\* Callers asking for their mark: below, inside and above the bound ranges.
Uids == {9999, 10000, 10500, 10999, 11000}

\* strchr(addr, ':') != NULL, for the literals of the model.
HasColon(addr) == addr \in {"::", "fd00::7", "fd00::", "fd00::9"}

----------------------------------------------------------------------------
(* Kernel tables and the normal behaviour of the external commands.        *)

BagAdd(b, e) ==
  IF e \in DOMAIN b THEN [b EXCEPT ![e] = @ + 1] ELSE b @@ (e :> 1)

BagDel(b, e) ==
  IF b[e] = 1 THEN [x \in (DOMAIN b) \ {e} |-> b[x]] ELSE [b EXCEPT ![e] = @ - 1]

Copies(b, e) == IF e \in DOMAIN b THEN b[e] ELSE 0

Range(s) == {s[i] : i \in 1..Len(s)}

CountIn(s, e) == Cardinality({i \in 1..Len(s) : s[i] = e})

FirstIndex(s, e) == CHOOSE i \in 1..Len(s) : s[i] = e /\ \A j \in 1..(i-1) : s[j] # e

RemoveAt(s, i) == SubSeq(s, 1, i-1) \o SubSeq(s, i+1, Len(s))

InsertAt(s, i, e) == SubSeq(s, 1, i-1) \o <<e>> \o SubSeq(s, i, Len(s))

\* An iptables rule: -o out, -m match (n1, n2 or s its argument), -d s/n1,
\* then opt (-j or -g) target and, for MARK, --set-mark setmark.
IptRule(fam, out, match, n1, n2, s, opt, target, setmark) ==
  [fam |-> fam, out |-> out, match |-> match, n1 |-> n1, n2 |-> n2, s |-> s,
   opt |-> opt, target |-> target, setmark |-> setmark]

BuiltinTargets == {<<"RETURN">>, <<"MARK">>, <<"MASQUERADE">>, <<"REJECT">>}

\* The mangle table is kept dual-stack; nat and filter are per family.
TableOf(target, table) ==
  IF table = "mangle" THEN <<V4V6, "mangle">> ELSE <<target, table>>

IptCmd(name, target, table, op, chain, pos, rule) ==
  [tool |-> "iptables", name |-> name, target |-> target, table |-> table,
   op |-> op, chain |-> chain, pos |-> pos, rule |-> rule]

NoRule == IptRule("", "", "", 0, 0, "", "", <<>>, -1)

Referenced(tbl, chain) ==
  \E c \in DOMAIN tbl : \E i \in 1..Len(tbl[c]) : tbl[c][i].target = chain

\* iptables / ip6tables acting normally on kernel kk.
IptExec(kk, c) ==
  LET key == TableOf(c.target, c.table)
      tbl == kk.ipt[key]
      fail == [k |-> kk, rc |-> 1]
      ok(newtbl) == [k |-> [kk EXCEPT !.ipt[key] = newtbl], rc |-> 0]
      targetOk == c.rule.target \in BuiltinTargets \/ c.rule.target \in DOMAIN tbl
  IN  IF key = <<V6, "nat">> /\ ~kk.v6nat THEN fail
      ELSE IF c.op = "-N" THEN
             IF c.chain \in DOMAIN tbl THEN fail
             ELSE ok(tbl @@ (c.chain :> <<>>))
      ELSE IF c.chain \notin DOMAIN tbl THEN fail
      ELSE IF c.op = "-F" THEN ok([tbl EXCEPT ![c.chain] = <<>>])
      ELSE IF c.op = "-X" THEN
             IF tbl[c.chain] # <<>> \/ Referenced(tbl, c.chain) THEN fail
             ELSE ok([x \in (DOMAIN tbl) \ {c.chain} |-> tbl[x]])
      ELSE IF c.op = "-A" THEN
             IF ~targetOk THEN fail
             ELSE ok([tbl EXCEPT ![c.chain] = Append(@, c.rule)])
      ELSE IF c.op = "-I" THEN
             IF ~targetOk \/ c.pos > Len(tbl[c.chain]) + 1 THEN fail
             ELSE ok([tbl EXCEPT ![c.chain] = InsertAt(@, c.pos, c.rule)])
      ELSE \* "-D"
             IF c.rule \notin Range(tbl[c.chain]) THEN fail
             ELSE ok([tbl EXCEPT ![c.chain] = RemoveAt(@, FirstIndex(@, c.rule))])

\* ip infers the family from the address when no -4/-6 is given.
IpFamily(flag, addr) ==
  IF flag # "" THEN flag ELSE IF HasColon(addr) THEN "-6" ELSE "-4"

IpRouteCmd(name, flag, action, dest, plen, via, dev, table) ==
  [tool |-> "ip", name |-> name, obj |-> "route", flag |-> flag, action |-> action,
   dest |-> dest, plen |-> plen, via |-> via, dev |-> dev, table |-> table]

IpRuleCmd(name, flag, action, prio, sel, mark, addr, table) ==
  [tool |-> "ip", name |-> name, obj |-> "rule", flag |-> flag, action |-> action,
   prio |-> prio, sel |-> sel, mark |-> mark, addr |-> addr, table |-> table]

\* ip acting normally on kernel kk: a route needs its device and is unique
\* per (family, destination, table); rules may repeat; del needs a match.
IpExec(kk, c) ==
  LET fail == [k |-> kk, rc |-> 1]
  IN  IF c.obj = "route" THEN
        LET fam == IpFamily(c.flag, c.dest)
            rt == [fam |-> fam, dest |-> c.dest, plen |-> c.plen, via |-> c.via,
                   dev |-> c.dev, table |-> c.table]
            same == {r \in kk.routes : r.fam = fam /\ r.dest = c.dest
                                        /\ r.plen = c.plen /\ r.table = c.table}
        IN  IF c.dev \notin Devs THEN fail
            ELSE IF c.action = ADD THEN
                   IF same # {} THEN fail
                   ELSE [k |-> [kk EXCEPT !.routes = @ \cup {rt}], rc |-> 0]
            ELSE LET hit == {r \in same : r.dev = c.dev /\ (c.via = "" \/ r.via = c.via)}
                 IN  IF hit = {} THEN fail
                     ELSE [k |-> [kk EXCEPT !.routes = @ \ hit], rc |-> 0]
      ELSE
        LET fam == IpFamily(c.flag, c.addr)
            ru == [fam |-> fam, prio |-> c.prio, sel |-> c.sel, mark |-> c.mark,
                   addr |-> c.addr, table |-> c.table]
        IN  IF c.action = ADD
            THEN [k |-> [kk EXCEPT !.rules = BagAdd(@, ru)], rc |-> 0]
            ELSE IF Copies(kk.rules, ru) = 0 THEN fail
                 ELSE [k |-> [kk EXCEPT !.rules = BagDel(@, ru)], rc |-> 0]

Exec(kk, c) == IF c.tool = "ip" THEN IpExec(kk, c) ELSE IptExec(kk, c)

----------------------------------------------------------------------------
(* One call in progress: st.k the kernel, st.cnt the rule counter, st.log  *)
(* the commands issued so far, each with its exit status and the rule      *)
(* counter as it stood when the command ran, st.faults the                 *)
(* positions in the log at which the command fails spuriously, st.rc the   *)
(* status of the latest command, st.ret / st.errno / st.msgs the call's    *)
(* outcome, st.uid the identity registry and st.reg the requests made to   *)
(* it.                                                                     *)

Call(kk, cnt, uid, faults) ==
  [k |-> kk, cnt |-> cnt, uid |-> uid, reg |-> <<>>, log |-> <<>>,
   faults |-> faults, rc |-> 0, ret |-> 0, errno |-> NOERR, msgs |-> <<>>]

\* Sequencing: evaluate x once, then continue with F on its value.
Then(x, F(_)) == CHOOSE r \in {F(v) : v \in {x}} : TRUE

\* android_fork_execvp: run the command, return its exit status.
Spawn(st, c) ==
  Then(st, LAMBDA s : Then(c, LAMBDA cc :
    Then(IF (Len(s.log) + 1) \in s.faults THEN [k |-> s.k, rc |-> 1] ELSE Exec(s.k, cc),
         LAMBDA r : [s EXCEPT !.k = r.k, !.rc = r.rc,
                              !.log = Append(@, [cmd |-> cc, rc |-> r.rc,
                                                 cnt |-> s.cnt])])))

runCmd(st, c) == Spawn(st, c)

execIptables(st, c) == Spawn(st, c)

\* int |= int on exit statuses.
BitOr(a, b) == IF a = 0 THEN b ELSE a

\* ret = <status of the command just run>
RetSet(s) == [s EXCEPT !.ret = s.rc]

\* ret |= <status of the command just run>
RetOr(s) == [s EXCEPT !.ret = BitOr(@, s.rc)]

sendMsg(st, code, text, addErrno) ==
  [st EXCEPT !.msgs = Append(@, [code |-> code, text |-> text, addErrno |-> addErrno])]

Return(st, ret) == [st EXCEPT !.ret = ret]

----------------------------------------------------------------------------
(* Rule reference counter.                                                 *)

\* Mutant: the entry is erased only once the count is negative.
modifyRuleCount_keepzero(cnt, netId, action) ==
  IF action = ADD THEN
    LET c0 == IF netId \notin DOMAIN cnt THEN cnt @@ (netId :> 0) ELSE cnt
    IN  [c0 EXCEPT ![netId] = @ + 1]
  ELSE
    IF netId \in DOMAIN cnt THEN
      LET c1 == [cnt EXCEPT ![netId] = @ - 1]
      IN  IF c1[netId] < 0 THEN [n \in (DOMAIN c1) \ {netId} |-> c1[n]] ELSE c1
    ELSE cnt

\* Mutant: the entry is erased as soon as the count falls to one.
modifyRuleCount_eraseatone(cnt, netId, action) ==
  IF action = ADD THEN
    LET c0 == IF netId \notin DOMAIN cnt THEN cnt @@ (netId :> 0) ELSE cnt
    IN  [c0 EXCEPT ![netId] = @ + 1]
  ELSE
    IF netId \in DOMAIN cnt THEN
      LET c1 == [cnt EXCEPT ![netId] = @ - 1]
      IN  IF c1[netId] < 2 THEN [n \in (DOMAIN c1) \ {netId} |-> c1[n]] ELSE c1
    ELSE cnt

modifyRuleCount(cnt, netId, action) ==
  IF action = ADD THEN
    LET c0 == IF netId \notin DOMAIN cnt THEN cnt @@ (netId :> 0) ELSE cnt
    IN  [c0 EXCEPT ![netId] = @ + 1]
  ELSE
    IF netId \in DOMAIN cnt THEN
      LET c1 == [cnt EXCEPT ![netId] = @ - 1]
      IN  IF c1[netId] < 1 THEN [n \in (DOMAIN c1) \ {netId} |-> c1[n]] ELSE c1
    ELSE cnt

----------------------------------------------------------------------------
(* Route Table Manager.                                                    *)

RouteCmd(action, iface, dest, prefix, gateway, tableIndex) ==
  IF gateway = "::"
  THEN IpRouteCmd("route", "", action, dest, prefix, "", iface, tableIndex)
  ELSE IpRouteCmd("route", "", action, dest, prefix, gateway, iface, tableIndex)

\* Mutant: the counter is updated before the command's status is looked at.
modifyRoute_countfirst(st, action, iface, dest, prefix, gateway, netId) ==
  Then(runCmd([st EXCEPT !.cnt = modifyRuleCount(@, netId, action)],
              RouteCmd(action, iface, dest, prefix, gateway, tableFor(netId))),
       LAMBDA s1 :
         IF s1.rc # 0 THEN
           Return(sendMsg([s1 EXCEPT !.errno = ENODEV],
                          "OperationFailed", "ip route modification failed", TRUE), -1)
         ELSE
           Return(sendMsg(s1, "CommandOkay", "Route modified", FALSE), 0))

modifyRoute(st, action, iface, dest, prefix, gateway, netId) ==
  Then(runCmd(st, RouteCmd(action, iface, dest, prefix, gateway, tableFor(netId))),
       LAMBDA s1 :
         IF s1.rc # 0 THEN
           Return(sendMsg([s1 EXCEPT !.errno = ENODEV],
                          "OperationFailed", "ip route modification failed", TRUE), -1)
         ELSE
           Return(sendMsg([s1 EXCEPT !.cnt = modifyRuleCount(@, netId, action)],
                          "CommandOkay", "Route modified", FALSE), 0))

addRoute(st, iface, dest, prefix, gateway) ==
  modifyRoute(st, ADD, iface, dest, prefix, gateway, getNetworkId(iface))

removeRoute(st, iface, dest, prefix, gateway) ==
  modifyRoute(st, DEL, iface, dest, prefix, gateway, getNetworkId(iface))

getVersion(addr) == IF HasColon(addr) THEN "-6" ELSE "-4"

getIptablesTarget(addr) == IF HasColon(addr) THEN V6 ELSE V4

modifyFromRule(st, netId, action, addr) ==
  Then(runCmd(st, IpRuleCmd("from", getVersion(addr), action, "", "from", 0, addr,
                            tableFor(netId))),
       LAMBDA s1 :
         IF s1.rc # 0 THEN Return(s1, -1)
         ELSE Return([s1 EXCEPT !.cnt = modifyRuleCount(@, netId, action)], 0))

\* Mutant: the counter is updated only when the command succeeded.
modifyLocalRoute_countonsuccess(st, netId, action, iface, addr) ==
  Then(runCmd(st, IpRouteCmd("local", "", action, addr, -1, "", iface, tableFor(netId))),
       LAMBDA s1 :
         IF s1.rc # 0 THEN Return(s1, s1.rc)
         ELSE Return([s1 EXCEPT !.cnt = modifyRuleCount(@, netId, action)], s1.rc))

modifyLocalRoute(st, netId, action, iface, addr) ==
  Then(runCmd([st EXCEPT !.cnt = modifyRuleCount(@, netId, action)],
              IpRouteCmd("local", "", action, addr, -1, "", iface, tableFor(netId))),
       LAMBDA s1 : Return(s1, s1.rc))

----------------------------------------------------------------------------
(* Fwmark Policy Manager: setFwmarkRule, in the order of the source.       *)

\* Mutant: the guard only fires from the second reference on.
fwmarkBusy_late(cnt, netId) == netId \in DOMAIN cnt /\ cnt[netId] > 1

\* Fail fast if any rules already exist for this interface.
fwmarkBusy(cnt, netId) == netId \in DOMAIN cnt

Act(add) == IF add THEN ADD ELSE DEL

\* v4 default route, then v4 fwmark rule; ret is the status of the latter.
fwmarkV4(st, iface, add, mark) ==
  Then(runCmd(st, IpRouteCmd("route_cmd", "", Act(add), "default", -1, "", iface, mark)),
       LAMBDA s1 :
  Then(runCmd(RetSet(s1), IpRuleCmd("fwmark_cmd", "", Act(add), RULE_PRIO, "fwmark",
                                    mark, "", mark)),
       LAMBDA s2 : RetSet(s2)))

\* v6 default route, then v6 fwmark rule; ret is the status of the latter.
fwmarkV6(st, iface, add, mark) ==
  Then(runCmd(st, IpRouteCmd("route6_cmd", "-6", Act(add), "default", -1, "", iface, mark)),
       LAMBDA s1 :
  Then(runCmd(RetSet(s1), IpRuleCmd("fwmark6_cmd", "-6", Act(add), RULE_PRIO, "fwmark",
                                    mark, "", mark)),
       LAMBDA s2 : RetSet(s2)))

JumpRule(mark, chain_str) ==
  IptRule(V4V6, "", "mark", mark, 0, "", "-g", chain_str, -1)

ClearMarkRule == IptRule(V4V6, "", "", 0, 0, "", "-j", <<"MARK">>, 0)

\* Mutant: the chain is destroyed without being flushed first.
fwmarkChain_noflush(st, iface, add, mark) ==
  Then(LOCAL_MANGLE_IFACE_FORMAT(iface), LAMBDA chain_str :
    IF add THEN
      Then(execIptables(st, IptCmd("chain_new", V4V6, "mangle", "-N", chain_str, 0,
                                   NoRule)),
           LAMBDA s1 :
      Then(execIptables(RetSet(s1), IptCmd("jump_insert", V4V6, "mangle", "-I",
                                           LOCAL_MANGLE_OUTPUT, 3,
                                           JumpRule(mark, chain_str))),
           LAMBDA s2 :
      Then(execIptables(RetOr(s2), IptCmd("clear_mark", V4V6, "mangle", "-A", chain_str,
                                          0, ClearMarkRule)),
           LAMBDA s3 : RetOr(s3))))
    ELSE
      Then(execIptables(st, IptCmd("jump_delete", V4V6, "mangle", "-D",
                                   LOCAL_MANGLE_OUTPUT, 0, JumpRule(mark, chain_str))),
           LAMBDA s1 :
      Then(execIptables(RetSet(s1), IptCmd("chain_delete", V4V6, "mangle", "-X",
                                           chain_str, 0, NoRule)),
           LAMBDA s3 : RetOr(s3))))

\* Mutant: the jump rule is appended to the master chain, not inserted.
fwmarkChain_appendjump(st, iface, add, mark) ==
  Then(LOCAL_MANGLE_IFACE_FORMAT(iface), LAMBDA chain_str :
    IF add THEN
      Then(execIptables(st, IptCmd("chain_new", V4V6, "mangle", "-N", chain_str, 0,
                                   NoRule)),
           LAMBDA s1 :
      Then(execIptables(RetSet(s1), IptCmd("jump_insert", V4V6, "mangle", "-A",
                                           LOCAL_MANGLE_OUTPUT, 0,
                                           JumpRule(mark, chain_str))),
           LAMBDA s2 :
      Then(execIptables(RetOr(s2), IptCmd("clear_mark", V4V6, "mangle", "-A", chain_str,
                                          0, ClearMarkRule)),
           LAMBDA s3 : RetOr(s3))))
    ELSE
      Then(execIptables(st, IptCmd("jump_delete", V4V6, "mangle", "-D",
                                   LOCAL_MANGLE_OUTPUT, 0, JumpRule(mark, chain_str))),
           LAMBDA s1 :
      Then(execIptables(RetSet(s1), IptCmd("chain_flush", V4V6, "mangle", "-F",
                                           chain_str, 0, NoRule)),
           LAMBDA s2 :
      Then(execIptables(RetOr(s2), IptCmd("chain_delete", V4V6, "mangle", "-X",
                                          chain_str, 0, NoRule)),
           LAMBDA s3 : RetOr(s3)))))

\* Mutant: on teardown the chain is destroyed first and the jump deleted last.
fwmarkChain_destroyfirst(st, iface, add, mark) ==
  Then(LOCAL_MANGLE_IFACE_FORMAT(iface), LAMBDA chain_str :
    IF add THEN
      Then(execIptables(st, IptCmd("chain_new", V4V6, "mangle", "-N", chain_str, 0,
                                   NoRule)),
           LAMBDA s1 :
      Then(execIptables(RetSet(s1), IptCmd("jump_insert", V4V6, "mangle", "-I",
                                           LOCAL_MANGLE_OUTPUT, 3,
                                           JumpRule(mark, chain_str))),
           LAMBDA s2 :
      Then(execIptables(RetOr(s2), IptCmd("clear_mark", V4V6, "mangle", "-A", chain_str,
                                          0, ClearMarkRule)),
           LAMBDA s3 : RetOr(s3))))
    ELSE
      Then(execIptables(st, IptCmd("chain_delete", V4V6, "mangle", "-X",
                                   chain_str, 0, NoRule)),
           LAMBDA s1 :
      Then(execIptables(RetSet(s1), IptCmd("chain_flush", V4V6, "mangle", "-F",
                                           chain_str, 0, NoRule)),
           LAMBDA s2 :
      Then(execIptables(RetOr(s2), IptCmd("jump_delete", V4V6, "mangle", "-D",
                                          LOCAL_MANGLE_OUTPUT, 0,
                                          JumpRule(mark, chain_str))),
           LAMBDA s3 : RetOr(s3)))))

\* The per-interface mangle chain: create, jump at position 3, clear mark;
\* or delete the jump, flush, destroy.
fwmarkChain(st, iface, add, mark) ==
  Then(LOCAL_MANGLE_IFACE_FORMAT(iface), LAMBDA chain_str :
    IF add THEN
      Then(execIptables(st, IptCmd("chain_new", V4V6, "mangle", "-N", chain_str, 0,
                                   NoRule)),
           LAMBDA s1 :
      Then(execIptables(RetSet(s1), IptCmd("jump_insert", V4V6, "mangle", "-I",
                                           LOCAL_MANGLE_OUTPUT, 3,
                                           JumpRule(mark, chain_str))),
           LAMBDA s2 :
      Then(execIptables(RetOr(s2), IptCmd("clear_mark", V4V6, "mangle", "-A", chain_str,
                                          0, ClearMarkRule)),
           LAMBDA s3 : RetOr(s3))))
    ELSE
      Then(execIptables(st, IptCmd("jump_delete", V4V6, "mangle", "-D",
                                   LOCAL_MANGLE_OUTPUT, 0, JumpRule(mark, chain_str))),
           LAMBDA s1 :
      Then(execIptables(RetSet(s1), IptCmd("chain_flush", V4V6, "mangle", "-F",
                                           chain_str, 0, NoRule)),
           LAMBDA s2 :
      Then(execIptables(RetOr(s2), IptCmd("chain_delete", V4V6, "mangle", "-X",
                                          chain_str, 0, NoRule)),
           LAMBDA s3 : RetOr(s3)))))

MasqRule(target, iface, mark) ==
  IptRule(target, iface, "mark", mark, 0, "", "-j", <<"MASQUERADE">>, -1)

RejectRule(mark) == IptRule(V6, "", "mark", mark, 0, "", "-j", <<"REJECT">>, -1)

AppendOrDelete(add) == IF add THEN "-A" ELSE "-D"

\* v4 source rewriting; ret is overwritten with its status.
fwmarkNat4(st, iface, add, mark) ==
  Then(execIptables(st, IptCmd("nat4", V4, "nat", AppendOrDelete(add),
                               LOCAL_NAT_POSTROUTING, 0, MasqRule(V4, iface, mark))),
       LAMBDA s1 : RetSet(s1))

\* Mutant: no REJECT fallback when v6 source rewriting fails.
fwmarkNat6_nofallback(st, iface, add, mark) ==
  Then(execIptables(st, IptCmd("nat6", V6, "nat", AppendOrDelete(add),
                               LOCAL_NAT_POSTROUTING, 0, MasqRule(V6, iface, mark))),
       LAMBDA s1 : RetSet(s1))

\* v6 source rewriting, and the REJECT rule when that fails.
fwmarkNat6(st, iface, add, mark) ==
  Then(execIptables(st, IptCmd("nat6", V6, "nat", AppendOrDelete(add),
                               LOCAL_NAT_POSTROUTING, 0, MasqRule(V6, iface, mark))),
       LAMBDA s1 :
         IF s1.rc # 0 THEN
           Then(execIptables(RetSet(s1), IptCmd("reject6", V6, "filter",
                                                AppendOrDelete(add), LOCAL_FILTER_OUTPUT,
                                                0, RejectRule(mark))),
                LAMBDA s2 : RetSet(s2))
         ELSE RetSet(s1))

\* Mutant: a completed sequence takes (or releases) a reference on the
\* network id.
fwmarkBody_counting(st, iface, add, netId) ==
  Then(tableFor(netId), LAMBDA mark :
  Then(fwmarkV4(st, iface, add, mark), LAMBDA a :
    IF a.ret # 0 THEN a
    ELSE Then(fwmarkV6(a, iface, add, mark), LAMBDA b :
      IF b.ret # 0 THEN b
      ELSE Then(fwmarkChain(b, iface, add, mark), LAMBDA c :
           Then(fwmarkNat4(c, iface, add, mark), LAMBDA d :
             IF d.ret # 0 THEN d
             ELSE Then(fwmarkNat6(d, iface, add, mark), LAMBDA e :
                    [e EXCEPT !.cnt = modifyRuleCount(@, netId, Act(add))]))))))

\* Everything setFwmarkRule does once the busy guard has passed.
fwmarkBody(st, iface, add, netId) ==
  Then(tableFor(netId), LAMBDA mark :
  Then(fwmarkV4(st, iface, add, mark), LAMBDA a :
    IF a.ret # 0 THEN a
    ELSE Then(fwmarkV6(a, iface, add, mark), LAMBDA b :
      IF b.ret # 0 THEN b
      ELSE Then(fwmarkChain(b, iface, add, mark), LAMBDA c :
           Then(fwmarkNat4(c, iface, add, mark), LAMBDA d :
             IF d.ret # 0 THEN d
             ELSE fwmarkNat6(d, iface, add, mark))))))

setFwmarkRule(st, iface, add) ==
  Then(getNetworkId(iface), LAMBDA netId :
    IF fwmarkBusy(st.cnt, netId)
    THEN Return([st EXCEPT !.errno = EBUSY], -1)
    ELSE fwmarkBody(st, iface, add, netId))

addFwmarkRule(st, iface) == setFwmarkRule(st, iface, TRUE)

removeFwmarkRule(st, iface) == setFwmarkRule(st, iface, FALSE)

----------------------------------------------------------------------------
(* Bootstrap.                                                              *)

ProtectReturnRule ==
  IptRule(V4V6, "", "mark", PROTECT_MARK, 0, "", "-j", <<"RETURN">>, -1)

VpnReturnRule == IptRule(V4V6, "", "owner", 0, 0, "vpn", "-j", <<"RETURN">>, -1)

\* Mutant: the exempt chain is not flushed (the master chain is, twice).
setupIptablesHooks_noflushexempt(st) ==
  Then(execIptables(st, IptCmd("flush_output", V4V6, "mangle", "-F",
                               LOCAL_MANGLE_OUTPUT, 0, NoRule)),
       LAMBDA s1 :
  Then(execIptables(RetSet(s1), IptCmd("flush_exempt", V4V6, "mangle", "-F",
                                       LOCAL_MANGLE_OUTPUT, 0, NoRule)),
       LAMBDA s2 :
  Then(execIptables(RetOr(s2), IptCmd("protect_return", V4V6, "mangle", "-A",
                                      LOCAL_MANGLE_OUTPUT, 0, ProtectReturnRule)),
       LAMBDA s3 :
  Then(execIptables(RetOr(s3), IptCmd("vpn_return", V4V6, "mangle", "-A",
                                      LOCAL_MANGLE_OUTPUT, 0, VpnReturnRule)),
       LAMBDA s4 : RetOr(s4)))))

setupIptablesHooks(st) ==
  Then(execIptables(st, IptCmd("flush_output", V4V6, "mangle", "-F",
                               LOCAL_MANGLE_OUTPUT, 0, NoRule)),
       LAMBDA s1 :
  Then(execIptables(RetSet(s1), IptCmd("flush_exempt", V4V6, "mangle", "-F",
                                       LOCAL_MANGLE_EXEMPT, 0, NoRule)),
       LAMBDA s2 :
  Then(execIptables(RetOr(s2), IptCmd("protect_return", V4V6, "mangle", "-A",
                                      LOCAL_MANGLE_OUTPUT, 0, ProtectReturnRule)),
       LAMBDA s3 :
  Then(execIptables(RetOr(s3), IptCmd("vpn_return", V4V6, "mangle", "-A",
                                      LOCAL_MANGLE_OUTPUT, 0, VpnReturnRule)),
       LAMBDA s4 : RetOr(s4)))))

----------------------------------------------------------------------------
(* Fwmark routes and UID rules.                                            *)

FwmarkRouteRule(target, dest, prefix, mark) ==
  IptRule(target, "", "-d", prefix, 0, dest, "-j", <<"MARK">>, mark)

setFwmarkRoute(st, iface, dest, prefix, add) ==
  Then(execIptables(st, IptCmd("fwmark_route", getIptablesTarget(dest), "mangle",
                               AppendOrDelete(add), LOCAL_MANGLE_IFACE_FORMAT(iface), 0,
                               FwmarkRouteRule(getIptablesTarget(dest), dest, prefix,
                                               tableFor(getNetworkId(iface))))),
       LAMBDA s1 : Return(s1, s1.rc))

Overlaps(e, uid_start, uid_end) == ~(e.uid_start > uid_end \/ uid_start > e.uid_end)

\* NetworkController::setNetworkForUidRange: bind the range to netId, or
\* release it when netId is NETID_UNSET; a range overlapping another one
\* without being identical to it is refused.
setNetworkForUidRange(uid, uid_start, uid_end, netId) ==
  LET over == {e \in uid : Overlaps(e, uid_start, uid_end)}
      same == {e \in over : e.uid_start = uid_start /\ e.uid_end = uid_end}
      entry == [uid_start |-> uid_start, uid_end |-> uid_end, netId |-> netId]
  IN  IF uid_start > uid_end \/ over # same THEN [ok |-> FALSE, uid |-> uid]
      ELSE IF netId = NETID_UNSET THEN [ok |-> TRUE, uid |-> uid \ same]
      ELSE [ok |-> TRUE, uid |-> (uid \ same) \cup {entry}]

UidRule(uid_start, uid_end, chain_str) ==
  IptRule(V4V6, "", "owner", uid_start, uid_end, "", "-g", chain_str, -1)

\* Mutant: the owner-match command is issued whatever the registry answers.
setUidRule_cmdfirst(st, iface, uid_start, uid_end, add) ==
  Then(IF add THEN getNetworkId(iface) ELSE 0, LAMBDA arg :
  Then(setNetworkForUidRange(st.uid, uid_start, uid_end, arg), LAMBDA r :
  Then([st EXCEPT !.uid = r.uid, !.reg = Append(@, <<uid_start, uid_end, arg>>)],
       LAMBDA s0 :
  Then(execIptables(s0, IptCmd("uid_rule", V4V6, "mangle", AppendOrDelete(add),
                               LOCAL_MANGLE_OUTPUT, 0,
                               UidRule(uid_start, uid_end,
                                       LOCAL_MANGLE_IFACE_FORMAT(iface)))),
       LAMBDA s1 :
    IF ~r.ok THEN Return([s1 EXCEPT !.errno = EINVAL], -1)
    ELSE Return(s1, s1.rc)))))

setUidRule(st, iface, uid_start, uid_end, add) ==
  Then(IF add THEN getNetworkId(iface) ELSE 0, LAMBDA arg :
  Then(setNetworkForUidRange(st.uid, uid_start, uid_end, arg), LAMBDA r :
  Then([st EXCEPT !.uid = r.uid, !.reg = Append(@, <<uid_start, uid_end, arg>>)],
       LAMBDA s0 :
    IF ~r.ok THEN Return([s0 EXCEPT !.errno = EINVAL], -1)
    ELSE Then(execIptables(s0, IptCmd("uid_rule", V4V6, "mangle", AppendOrDelete(add),
                                      LOCAL_MANGLE_OUTPUT, 0,
                                      UidRule(uid_start, uid_end,
                                              LOCAL_MANGLE_IFACE_FORMAT(iface)))),
              LAMBDA s1 : Return(s1, s1.rc)))))

----------------------------------------------------------------------------
(* Host exemptions and the mark of a UID.                                  *)

ExemptMarkRule(target, host) ==
  IptRule(target, "", "-d", 0, 0, host, "-j", <<"MARK">>, PROTECT_MARK)

\* Mutant: the status of the mark rule is overwritten by that of the policy
\* rule.
setHostExemption_overwrite(st, host, add) ==
  Then(IF getVersion(host) = "-4" THEN V4 ELSE V6, LAMBDA target :
  Then(execIptables(st, IptCmd("exempt_mark", target, "mangle", AppendOrDelete(add),
                               LOCAL_MANGLE_EXEMPT, 0, ExemptMarkRule(target, host))),
       LAMBDA s1 :
  Then(runCmd(RetSet(s1), IpRuleCmd("exempt_rule", getVersion(host), Act(add),
                                    EXEMPT_PRIO, "to", 0, host, MainTable)),
       LAMBDA s2 : RetSet(s2))))

\* The mark rule in the exempt chain, then the policy rule to table main;
\* both always run and ret is the OR of their statuses.
setHostExemption(st, host, add) ==
  Then(IF getVersion(host) = "-4" THEN V4 ELSE V6, LAMBDA target :
  Then(execIptables(st, IptCmd("exempt_mark", target, "mangle", AppendOrDelete(add),
                               LOCAL_MANGLE_EXEMPT, 0, ExemptMarkRule(target, host))),
       LAMBDA s1 :
  Then(runCmd(RetSet(s1), IpRuleCmd("exempt_rule", getVersion(host), Act(add),
                                    EXEMPT_PRIO, "to", 0, host, MainTable)),
       LAMBDA s2 : RetOr(s2))))

addHostExemption(st, host) == setHostExemption(st, host, TRUE)

removeHostExemption(st, host) == setHostExemption(st, host, FALSE)

\* NetworkController::getNetwork(uid, NETID_UNSET, PID_UNSPECIFIED, false):
\* the network id the uid's range is bound to, NETID_UNSET when it has none.
getNetwork(uid, u) ==
  IF \E e \in uid : e.uid_start <= u /\ u <= e.uid_end
  THEN (CHOOSE e \in uid : e.uid_start <= u /\ u <= e.uid_end).netId
  ELSE NETID_UNSET

\* Mutant: the network id is reported without the table base.
getUidMark_raw(st, u) ==
  sendMsg([st EXCEPT !.reg = Append(@, <<u, u, NETID_UNSET>>)],
          "GetMarkResult", getNetwork(st.uid, u), FALSE)

\* The request to the registry is kept as <<uid, uid, NETID_UNSET>>.
getUidMark(st, u) ==
  sendMsg([st EXCEPT !.reg = Append(@, <<u, u, NETID_UNSET>>)],
          "GetMarkResult", tableFor(getNetwork(st.uid, u)), FALSE)

----------------------------------------------------------------------------
(* State of the system.                                                    *)

EmptyMap == [x \in {} |-> 0]

BaseChains(names) == [c \in names |-> <<>>]

\* The hook chains exist (the daemon creates them before the controller is
\* used); nothing has been installed yet.  Whether the kernel has an IPv6
\* nat table depends on its version.
InitKernel(v6nat) ==
  [v6nat |-> v6nat,
   routes |-> {},
   rules |-> EmptyMap,
   ipt |-> (<<V4V6, "mangle">> :> BaseChains({LOCAL_MANGLE_OUTPUT, LOCAL_MANGLE_EXEMPT}))
        @@ (<<V4, "nat">> :> BaseChains({LOCAL_NAT_POSTROUTING}))
        @@ (<<V6, "nat">> :> BaseChains({LOCAL_NAT_POSTROUTING}))
        @@ (<<V6, "filter">> :> BaseChains({LOCAL_FILTER_OUTPUT}))]

Mangle(kk) == kk.ipt[<<V4V6, "mangle">>]

CountOf(cnt, netId) == IF netId \in DOMAIN cnt THEN cnt[netId] ELSE 0

FwmarkRuleRec(fam, mark) ==
  [fam |-> fam, prio |-> RULE_PRIO, sel |-> "fwmark", mark |-> mark, addr |-> "",
   table |-> mark]

HasJump(kk, iface) ==
  JumpRule(tableFor(getNetworkId(iface)), LOCAL_MANGLE_IFACE_FORMAT(iface))
    \in Range(Mangle(kk)[LOCAL_MANGLE_OUTPUT])

HasChain(kk, iface) == LOCAL_MANGLE_IFACE_FORMAT(iface) \in DOMAIN Mangle(kk)

HasFwmarkRule(kk, iface, fam) ==
  Copies(kk.rules, FwmarkRuleRec(fam, tableFor(getNetworkId(iface)))) > 0

HasDefaultRoute(kk, iface, fam) ==
  \E r \in kk.routes : /\ r.fam = fam /\ r.dest = "default"
                        /\ r.table = tableFor(getNetworkId(iface))

HasMasq(kk, iface, target) ==
  MasqRule(target, iface, tableFor(getNetworkId(iface)))
    \in Range(kk.ipt[<<target, "nat">>][LOCAL_NAT_POSTROUTING])

HasReject(kk, iface) ==
  RejectRule(tableFor(getNetworkId(iface)))
    \in Range(kk.ipt[<<V6, "filter">>][LOCAL_FILTER_OUTPUT])

\* No artifact of fwmark routing exists for the interface.
FwClean(kk, iface) ==
  /\ ~HasJump(kk, iface) /\ ~HasChain(kk, iface)
  /\ ~HasFwmarkRule(kk, iface, "-4") /\ ~HasFwmarkRule(kk, iface, "-6")
  /\ ~HasDefaultRoute(kk, iface, "-4") /\ ~HasDefaultRoute(kk, iface, "-6")
  /\ ~HasMasq(kk, iface, V4) /\ ~HasMasq(kk, iface, V6) /\ ~HasReject(kk, iface)

Bootstrapped(kk) ==
  /\ Len(Mangle(kk)[LOCAL_MANGLE_OUTPUT]) >= 2
  /\ Mangle(kk)[LOCAL_MANGLE_OUTPUT][1] = ProtectReturnRule
  /\ Mangle(kk)[LOCAL_MANGLE_OUTPUT][2] = VpnReturnRule

\* The bounds of the model: no rule or route rule is held more than MaxDup
\* times, no counter exceeds MaxCount.
WithinBounds(st) ==
  /\ \A e \in DOMAIN st.k.rules : st.k.rules[e] <= MaxDup
  /\ \A t \in DOMAIN st.k.ipt : \A c \in DOMAIN st.k.ipt[t] :
        \A e \in Range(st.k.ipt[t][c]) : CountIn(st.k.ipt[t][c], e) <= MaxDup
  /\ \A n \in DOMAIN st.cnt : st.cnt[n] <= MaxCount

Threads == {1, 2}

IdleFrame == [pc |-> "idle", op |-> "", iface |-> "", add |-> FALSE, netId |-> 0, ret |-> 0]

NoCall ==
  [op |-> "none", iface |-> "", netId |-> 0, action |-> "", ret |-> 0,
   errno |-> NOERR, msgs |-> <<>>, log |-> <<>>, faults |-> {}, reg |-> <<>>,
   cnt0 |-> EmptyMap, clean |-> FALSE]

Summary(l) ==
  [op |-> l.op, iface |-> l.iface, ret |-> l.ret, faults |-> l.faults, clean |-> l.clean]

Init ==
  /\ k \in {InitKernel(b) : b \in BOOLEAN}
  /\ mNetIdRuleCount = EmptyMap
  /\ mUidMap = {}
  /\ last = NoCall
  /\ prev = Summary(NoCall)
  /\ faultsLeft = MaxFaults
  /\ thr = [t \in Threads |-> IdleFrame]

FaultChoices(n) ==
  IF faultsLeft = 0 THEN {{}}
  ELSE {F \in SUBSET (1..n) : Cardinality(F) <= faultsLeft}

Start(F) == Call(k, mNetIdRuleCount, mUidMap, F)

\* A call ran to completion on the caller's thread.
Done(op, iface, netId, action, F, r) ==
  /\ F \subseteq 1..Len(r.log)
  /\ WithinBounds(r)
  /\ k' = r.k
  /\ mNetIdRuleCount' = r.cnt
  /\ mUidMap' = r.uid
  /\ last' = [op |-> op, iface |-> iface, netId |-> netId, action |-> action,
               ret |-> r.ret, errno |-> r.errno, msgs |-> r.msgs, log |-> r.log,
               faults |-> F, reg |-> r.reg, cnt0 |-> mNetIdRuleCount,
               clean |-> /\ iface \in Ifaces
                         /\ FwClean(k, iface) /\ Bootstrapped(k)
                         /\ CountOf(mNetIdRuleCount, getNetworkId(iface)) = 0]
  /\ prev' = Summary(last)
  /\ faultsLeft' = faultsLeft - Cardinality(F)
  /\ UNCHANGED thr

Bootstrap ==
  \E F \in FaultChoices(4) :
    \E s \in {Start(F)} : \E r \in {setupIptablesHooks(s)} :
      Done("setupIptablesHooks", "", 0, "", F, r)

AddRoute(ifs) ==
  \E iface \in ifs, dest \in Dests, prefix \in Prefixes, gateway \in Gateways :
    \E F \in FaultChoices(1) :
      \E s \in {Start(F)} : \E r \in {addRoute(s, iface, dest, prefix, gateway)} :
        Done("addRoute", iface, getNetworkId(iface), ADD, F, r)

RemoveRoute(ifs) ==
  \E iface \in ifs, dest \in Dests, prefix \in Prefixes, gateway \in Gateways :
    \E F \in FaultChoices(1) :
      \E s \in {Start(F)} : \E r \in {removeRoute(s, iface, dest, prefix, gateway)} :
        Done("removeRoute", iface, getNetworkId(iface), DEL, F, r)

ModifyFromRule ==
  \E netId \in NetIds, action \in {ADD, DEL}, addr \in FromAddrs :
    \E F \in FaultChoices(1) :
      \E s \in {Start(F)} : \E r \in {modifyFromRule(s, netId, action, addr)} :
        Done("modifyFromRule", "", netId, action, F, r)

ModifyLocalRoute(ifs) ==
  \E iface \in ifs, action \in {ADD, DEL}, addr \in LocalAddrs :
    \E F \in FaultChoices(1) :
      \E s \in {Start(F)} :
        \E r \in {modifyLocalRoute(s, getNetworkId(iface), action, iface, addr)} :
        Done("modifyLocalRoute", iface, getNetworkId(iface), action, F, r)

AddFwmarkRule(ifs) ==
  \E iface \in ifs : \E F \in FaultChoices(10) :
    \E s \in {Start(F)} : \E r \in {addFwmarkRule(s, iface)} :
      Done("addFwmarkRule", iface, getNetworkId(iface), ADD, F, r)

RemoveFwmarkRule(ifs) ==
  \E iface \in ifs : \E F \in FaultChoices(10) :
    \E s \in {Start(F)} : \E r \in {removeFwmarkRule(s, iface)} :
      Done("removeFwmarkRule", iface, getNetworkId(iface), DEL, F, r)

AddFwmarkRoute(ifs, dests) ==
  \E iface \in ifs, dest \in dests, prefix \in Prefixes :
    \E F \in FaultChoices(1) :
      \E s \in {Start(F)} : \E r \in {setFwmarkRoute(s, iface, dest, prefix, TRUE)} :
        Done("addFwmarkRoute", iface, getNetworkId(iface), ADD, F, r)

RemoveFwmarkRoute(ifs, dests) ==
  \E iface \in ifs, dest \in dests, prefix \in Prefixes :
    \E F \in FaultChoices(1) :
      \E s \in {Start(F)} : \E r \in {setFwmarkRoute(s, iface, dest, prefix, FALSE)} :
        Done("removeFwmarkRoute", iface, getNetworkId(iface), DEL, F, r)

AddUidRule(ifs, ranges) ==
  \E iface \in ifs, range \in ranges :
    \E F \in FaultChoices(1) :
      \E s \in {Start(F)} : \E r \in {setUidRule(s, iface, range[1], range[2], TRUE)} :
        Done("addUidRule", iface, getNetworkId(iface), ADD, F, r)

RemoveUidRule(ifs, ranges) ==
  \E iface \in ifs, range \in ranges :
    \E F \in FaultChoices(1) :
      \E s \in {Start(F)} : \E r \in {setUidRule(s, iface, range[1], range[2], FALSE)} :
        Done("removeUidRule", iface, getNetworkId(iface), DEL, F, r)

Next ==
  \/ Bootstrap
  \/ AddRoute(KnownIfaces)
  \/ RemoveRoute(KnownIfaces)
  \/ AddFwmarkRule(KnownIfaces)
  \/ RemoveFwmarkRule(KnownIfaces)

Spec == Init /\ [][Next]_vars

\* The operations that touch the rule counter, on their own.
NextRoutes ==
  \/ AddRoute(KnownIfaces)
  \/ RemoveRoute(KnownIfaces)
  \/ ModifyFromRule
  \/ ModifyLocalRoute(KnownIfaces)

SpecRoutes == Init /\ [][NextRoutes]_vars

\* Callers naming an interface the registry does not know; commands fail
\* only for their normal reasons.
InitIface ==
  /\ k \in {InitKernel(b) : b \in BOOLEAN}
  /\ mNetIdRuleCount = EmptyMap
  /\ mUidMap = {}
  /\ last = NoCall
  /\ prev = Summary(NoCall)
  /\ faultsLeft = 0
  /\ thr = [t \in Threads |-> IdleFrame]

NextIface ==
  \/ Bootstrap
  \/ AddRoute(UnknownIfaces)
  \/ RemoveRoute(UnknownIfaces)
  \/ AddFwmarkRule(UnknownIfaces)
  \/ RemoveFwmarkRule(UnknownIfaces)
  \/ AddFwmarkRoute(UnknownIfaces, {"10.1.0.0"})
  \/ RemoveFwmarkRoute(UnknownIfaces, {"10.1.0.0"})
  \/ AddUidRule(UnknownIfaces, {<<10000, 10999>>})
  \/ RemoveUidRule(UnknownIfaces, {<<10000, 10999>>})

SpecIface == InitIface /\ [][NextIface]_vars

AddHostExemption ==
  \E host \in Hosts : \E F \in FaultChoices(2) :
    \E s \in {Start(F)} : \E r \in {addHostExemption(s, host)} :
      Done("addHostExemption", "", 0, ADD, F, r)

RemoveHostExemption ==
  \E host \in Hosts : \E F \in FaultChoices(2) :
    \E s \in {Start(F)} : \E r \in {removeHostExemption(s, host)} :
      Done("removeHostExemption", "", 0, DEL, F, r)

GetUidMark ==
  \E u \in Uids :
    \E s \in {Start({})} : \E r \in {getUidMark(s, u)} :
      Done("getUidMark", "", 0, "", {}, r)

\* The bootstrap has run, with every command succeeding; from here on
\* commands fail only for their normal reasons.
InitBooted ==
  /\ k \in {setupIptablesHooks(Call(InitKernel(b), EmptyMap, {}, {})).k : b \in BOOLEAN}
  /\ mNetIdRuleCount = EmptyMap
  /\ mUidMap = {}
  /\ last = NoCall
  /\ prev = Summary(NoCall)
  /\ faultsLeft = 0
  /\ thr = [t \in Threads |-> IdleFrame]

\* UID bindings next to fwmark routing, after the bootstrap.
NextUid ==
  \/ AddFwmarkRule(KnownIfaces)
  \/ RemoveFwmarkRule(KnownIfaces)
  \/ AddUidRule(KnownIfaces, UidRanges)
  \/ RemoveUidRule(KnownIfaces, UidRanges)
  \/ GetUidMark

SpecUid == InitBooted /\ [][NextUid]_vars

\* Host exemptions, with the bootstrap that flushes their chain.
NextHost ==
  \/ Bootstrap
  \/ AddHostExemption
  \/ RemoveHostExemption

SpecHost == Init /\ [][NextHost]_vars

\* The bootstrap run over chains that fwmark routing and host exemptions
\* have filled.
NextBoot ==
  \/ Bootstrap
  \/ AddFwmarkRule(KnownIfaces)
  \/ AddHostExemption

SpecBoot == Init /\ [][NextBoot]_vars

\* Enabling, then disabling again and again: one command of one call may
\* fail spuriously, the others behave normally, and the disable is retried
\* for as long as it changes anything.
InitRetry ==
  /\ k \in {setupIptablesHooks(Call(InitKernel(b), EmptyMap, {}, {})).k : b \in BOOLEAN}
  /\ mNetIdRuleCount = EmptyMap
  /\ mUidMap = {}
  /\ last = NoCall
  /\ prev = Summary(NoCall)
  /\ faultsLeft = MaxFaults
  /\ thr = [t \in Threads |-> IdleFrame]

EnableFirst ==
  /\ last.op \in {"none", "addFwmarkRule"}
  /\ AddFwmarkRule(KnownIfaces)

RetryDisable == RemoveFwmarkRule(KnownIfaces)

NextRetry ==
  \/ EnableFirst
  \/ RetryDisable

SpecRetry == InitRetry /\ [][NextRetry]_vars /\ WF_vars(RetryDisable)

\* States to start from: the bootstrap has run; fwmark routing may have been
\* enabled on tun0, and a manual route may have been added after that.
FrameSetup(v6nat, enabled, routed) ==
  Then(setupIptablesHooks(Call(InitKernel(v6nat), EmptyMap, {}, {})), LAMBDA s0 :
  Then(IF enabled THEN addFwmarkRule(Call(s0.k, s0.cnt, s0.uid, {}), "tun0") ELSE s0,
       LAMBDA s1 :
  IF routed THEN addRoute(Call(s1.k, s1.cnt, s1.uid, {}), "tun0", "10.1.0.0", 16, "::")
  ELSE s1))

InitFrame ==
  /\ \E v6nat \in BOOLEAN, enabled \in BOOLEAN, routed \in BOOLEAN :
       \E s \in {FrameSetup(v6nat, enabled, routed)} :
         /\ k = s.k
         /\ mNetIdRuleCount = s.cnt
  /\ mUidMap = {}
  /\ last = NoCall
  /\ prev = Summary(NoCall)
  /\ faultsLeft = MaxFaults
  /\ thr = [t \in Threads |-> IdleFrame]

\* At most one call has been made since the start.
FirstCalls == prev.op = "none"

\* Two calls in a row, each any operation that is not a route operation;
\* one command may fail spuriously.
NextFrame ==
  \/ FirstCalls /\ Bootstrap
  \/ FirstCalls /\ AddFwmarkRule(KnownIfaces)
  \/ FirstCalls /\ RemoveFwmarkRule(KnownIfaces)
  \/ FirstCalls /\ AddFwmarkRoute(KnownIfaces, FwmarkDests)
  \/ FirstCalls /\ RemoveFwmarkRoute(KnownIfaces, FwmarkDests)
  \/ FirstCalls /\ AddUidRule(KnownIfaces, UidRanges)
  \/ FirstCalls /\ RemoveUidRule(KnownIfaces, UidRanges)
  \/ FirstCalls /\ AddHostExemption
  \/ FirstCalls /\ RemoveHostExemption

SpecFrame == InitFrame /\ [][NextFrame]_vars

----------------------------------------------------------------------------
(* Caller threads.  The controller takes no lock: a thread runs            *)
(* setFwmarkRule or modifyRoute one stretch of code at a time, and the     *)
(* other thread may run between any two stretches.  The stretches of       *)
(* setFwmarkRule are the busy guard and the command groups between its     *)
(* returns; those of modifyRoute are the route command and the counter     *)
(* update.                                                                 *)

FwPhases == {"v4", "v6", "chain", "nat4", "nat6"}

InitThreads ==
  /\ k \in {setupIptablesHooks(Call(InitKernel(b), EmptyMap, {}, {})).k : b \in BOOLEAN}
  /\ mNetIdRuleCount = EmptyMap
  /\ mUidMap = {}
  /\ last = NoCall
  /\ prev = Summary(NoCall)
  /\ faultsLeft = 0
  /\ thr = [t \in Threads |-> IdleFrame]

Shared == Call(k, mNetIdRuleCount, mUidMap, {})

\* A thread enters addFwmarkRule / removeFwmarkRule (line 241) or
\* addRoute / removeRoute (line 101 / 187).
T_Call(t) ==
  /\ thr[t].pc = "idle"
  /\ \E iface \in KnownIfaces, op \in {"setFwmarkRule", "modifyRoute"}, add \in BOOLEAN :
        thr' = [thr EXCEPT ![t] = [pc |-> IF op = "setFwmarkRule" THEN "guard" ELSE "cmd",
                                   op |-> op, iface |-> iface, add |-> add,
                                   netId |-> getNetworkId(iface), ret |-> 0]]
  /\ UNCHANGED <<k, mNetIdRuleCount, mUidMap, last, prev, faultsLeft>>

\* setFwmarkRule, lines 243-247.
T_Guard(t) ==
  /\ thr[t].pc = "guard"
  /\ thr' = [thr EXCEPT ![t] =
               IF fwmarkBusy(mNetIdRuleCount, thr[t].netId)
               THEN [@ EXCEPT !.pc = "idle", !.ret = -1]
               ELSE [@ EXCEPT !.pc = "v4"]]
  /\ UNCHANGED <<k, mNetIdRuleCount, mUidMap, last, prev, faultsLeft>>

\* setFwmarkRule, one command group; the position after it follows the
\* returns of lines 277, 308, 397 and 429.
T_Phase(t) ==
  /\ thr[t].pc \in FwPhases
  /\ \E f \in {thr[t]} : \E s \in {Shared} :
       \E r \in {CASE f.pc = "v4" -> fwmarkV4(s, f.iface, f.add, tableFor(f.netId))
                   [] f.pc = "v6" -> fwmarkV6(s, f.iface, f.add, tableFor(f.netId))
                   [] f.pc = "chain" -> fwmarkChain(s, f.iface, f.add, tableFor(f.netId))
                   [] f.pc = "nat4" -> fwmarkNat4(s, f.iface, f.add, tableFor(f.netId))
                   [] f.pc = "nat6" -> fwmarkNat6(s, f.iface, f.add, tableFor(f.netId))} :
         /\ WithinBounds(r)
         /\ k' = r.k
         /\ thr' = [thr EXCEPT ![t] =
                      [@ EXCEPT !.ret = r.ret,
                                !.pc = CASE f.pc = "v4" -> IF r.ret # 0 THEN "idle" ELSE "v6"
                                         [] f.pc = "v6" -> IF r.ret # 0 THEN "idle" ELSE "chain"
                                         [] f.pc = "chain" -> "nat4"
                                         [] f.pc = "nat4" -> IF r.ret # 0 THEN "idle" ELSE "nat6"
                                         [] f.pc = "nat6" -> "idle"]]
  /\ UNCHANGED <<mNetIdRuleCount, mUidMap, last, prev, faultsLeft>>

\* modifyRoute, lines 111-148: the route command and the failure return.
T_RouteCmd(t) ==
  /\ thr[t].pc = "cmd"
  /\ \E dest \in Dests, prefix \in Prefixes, gateway \in Gateways :
       \E f \in {thr[t]} : \E s \in {Shared} :
         \E r \in {runCmd(s, RouteCmd(Act(f.add), f.iface, dest, prefix, gateway,
                                      tableFor(f.netId)))} :
           /\ k' = r.k
           /\ thr' = [thr EXCEPT ![t] = IF r.rc # 0
                                         THEN [@ EXCEPT !.pc = "idle", !.ret = -1]
                                         ELSE [@ EXCEPT !.pc = "count"]]
  /\ UNCHANGED <<mNetIdRuleCount, mUidMap, last, prev, faultsLeft>>

\* modifyRoute, lines 150-152: the counter update and the success return.
T_Count(t) ==
  /\ thr[t].pc = "count"
  /\ \E c \in {modifyRuleCount(mNetIdRuleCount, thr[t].netId, Act(thr[t].add))} :
         /\ \A n \in DOMAIN c : c[n] <= MaxCount
         /\ mNetIdRuleCount' = c
  /\ thr' = [thr EXCEPT ![t] = [@ EXCEPT !.pc = "idle", !.ret = 0]]
  /\ UNCHANGED <<k, mUidMap, last, prev, faultsLeft>>

NextThreads ==
  \E t \in Threads :
    \/ T_Call(t)
    \/ T_Guard(t)
    \/ T_Phase(t)
    \/ T_RouteCmd(t)
    \/ T_Count(t)

SpecThreads == InitThreads /\ [][NextThreads]_vars

----------------------------------------------------------------------------
(* Properties.                                                             *)

FwmarkOps == {"addFwmarkRule", "removeFwmarkRule"}

LogNames(l) == {l.log[i].cmd.name : i \in 1..Len(l.log)}

Failed(l, name) == \E i \in 1..Len(l.log) : l.log[i].cmd.name = name /\ l.log[i].rc # 0

Succeeded(l, name) == \E i \in 1..Len(l.log) : l.log[i].cmd.name = name /\ l.log[i].rc = 0

\* The call went past the busy guard of setFwmarkRule.
PastGuard(l) == l.op \in FwmarkOps /\ CountOf(l.cnt0, l.netId) = 0

\* C1: a call to addFwmarkRule / removeFwmarkRule for an interface whose
\* network id has a reference count > 0 returns -1 with errno EBUSY, runs no
\* command and leaves the kernel and the counter as they were.
C1_BusyGuard ==
  [][(last'.op \in FwmarkOps /\ CountOf(mNetIdRuleCount, last'.netId) > 0)
       => /\ last'.ret = -1
          /\ last'.errno = EBUSY
          /\ last'.log = <<>>
          /\ k' = k
          /\ mNetIdRuleCount' = mNetIdRuleCount]_vars

C1_Witness ==
  /\ last.op \in FwmarkOps
  /\ CountOf(last.cnt0, last.netId) > 0
  /\ last.ret = -1
  /\ last.errno = EBUSY
  /\ last.log = <<>>

\* The fwmark routing path of an interface: its policy rule, its jump rule
\* or its dedicated chain.
FwmarkPathInstalled(kk, iface) ==
  \/ HasFwmarkRule(kk, iface, "-4") \/ HasFwmarkRule(kk, iface, "-6")
  \/ HasJump(kk, iface) \/ HasChain(kk, iface)

\* C2: in every reachable state, no network id has the fwmark routing path
\* installed while its reference count from manual routes is >= 1.
C2_OneStrategy ==
  \A iface \in KnownIfaces :
    ~(FwmarkPathInstalled(k, iface)
      /\ CountOf(mNetIdRuleCount, getNetworkId(iface)) >= 1)

\* C3: a network id is in the counter map if and only if its count is >= 1;
\* the map never holds a zero or negative count.
C3_NoZeroEntry ==
  \A n \in NetIds :
    /\ n \in DOMAIN mNetIdRuleCount <=> CountOf(mNetIdRuleCount, n) >= 1
    /\ n \in DOMAIN mNetIdRuleCount => mNetIdRuleCount[n] >= 1

\* The last reference of a network id was released and its entry is gone.
C3_Witness ==
  /\ last.action = DEL
  /\ CountOf(last.cnt0, last.netId) = 1
  /\ last.netId \notin DOMAIN mNetIdRuleCount

\* A sub-step of setFwmarkRule failed; v6 NAT counts together with its
\* REJECT fallback.
SubStepFailed(l) ==
  \E i \in 1..Len(l.log) :
    /\ l.log[i].rc # 0
    /\ l.log[i].cmd.name = "nat6" => ~Succeeded(l, "reject6")

\* C4: addFwmarkRule / removeFwmarkRule returns non-zero whenever one of its
\* sub-steps returned non-zero, and 0 only if every sub-step succeeded.
C4_AnyFailureReported ==
  PastGuard(last) => (SubStepFailed(last) <=> last.ret # 0)

FwmarkSteps(op) ==
  {"route_cmd", "fwmark_cmd", "route6_cmd", "fwmark6_cmd", "nat4", "nat6"}
    \cup (IF op = "addFwmarkRule" THEN {"chain_new", "jump_insert", "clear_mark"}
          ELSE {"jump_delete", "chain_flush", "chain_delete"})

\* C5: once the busy guard has passed, every sub-step of the sequence is
\* attempted, whichever earlier sub-steps failed.
C5_AllAttempted ==
  PastGuard(last) => FwmarkSteps(last.op) \subseteq LogNames(last)

\* The interface has no fwmark artifact, bootstrap is done and the network
\* has no manual reference.
CleanNetwork(kk, cnt, iface) ==
  FwClean(kk, iface) /\ Bootstrapped(kk) /\ CountOf(cnt, getNetworkId(iface)) = 0

\* enable then disable, every command behaving normally.
EnableThenDisable(iface) ==
  Then(Start({}), LAMBDA s :
  Then(addFwmarkRule(s, iface), LAMBDA e :
  Then(Call(e.k, e.cnt, e.uid, {}), LAMBDA s2 :
  Then(removeFwmarkRule(s2, iface), LAMBDA d : [enable |-> e, disable |-> d]))))

\* C6: on a clean network, with bootstrap done and every command behaving
\* normally, addFwmarkRule followed at once by removeFwmarkRule returns 0
\* twice and leaves the kernel as it was before: no jump rule, no chain, no
\* fwmark rule, no default route, no NAT or REJECT rule.
C6_EnableDisableRoundTrip ==
  /\ \A iface \in KnownIfaces :
        CleanNetwork(k, mNetIdRuleCount, iface) =>
          \A r \in {EnableThenDisable(iface)} :
              /\ r.enable.ret = 0
              /\ ~FwClean(r.enable.k, iface)
              /\ r.disable.ret = 0
              /\ r.disable.k = k
              /\ r.disable.cnt = mNetIdRuleCount
              /\ FwClean(r.disable.k, iface)
  /\ (/\ last.op = "removeFwmarkRule" /\ last.faults = {}
      /\ prev.op = "addFwmarkRule" /\ prev.faults = {}
      /\ prev.iface = last.iface /\ prev.clean)
       => (prev.ret = 0 /\ last.ret = 0 /\ FwClean(k, last.iface) /\ Bootstrapped(k))

C6_Witness ==
  /\ last.op = "removeFwmarkRule" /\ last.faults = {} /\ last.ret = 0
  /\ prev.op = "addFwmarkRule" /\ prev.faults = {} /\ prev.ret = 0
  /\ prev.iface = last.iface /\ prev.clean
  /\ Succeeded(last, "chain_delete")
  /\ FwClean(k, last.iface)

\* C7 as stated: whenever addFwmarkRule passes the guard and the v6 NAT
\* install fails, the v6 REJECT rule for the mark exists after the call.
C7_RejectAlwaysExists ==
  (last.op = "addFwmarkRule" /\ PastGuard(last) /\ Failed(last, "nat6"))
    => HasReject(k, last.iface)

\* C7 as amended: whenever addFwmarkRule passes the guard and the v6 NAT
\* install fails, the command appending the v6 REJECT rule for the mark is
\* the next and last one issued, the call returns that command's status,
\* and the rule exists after the call if that command succeeded.
C7_RejectFallback ==
  (last.op = "addFwmarkRule" /\ PastGuard(last) /\ Failed(last, "nat6"))
    => \A n \in {Len(last.log)} :
           /\ n >= 2
           /\ last.log[n-1].cmd.name = "nat6"
           /\ last.log[n].cmd =
                 IptCmd("reject6", V6, "filter", "-A", LOCAL_FILTER_OUTPUT, 0,
                        RejectRule(tableFor(last.netId)))
           /\ last.ret = last.log[n].rc
           /\ last.log[n].rc = 0 => HasReject(k, last.iface)

C7_Witness ==
  /\ last.op = "addFwmarkRule" /\ PastGuard(last)
  /\ Failed(last, "nat6") /\ Succeeded(last, "reject6")
  /\ HasReject(k, last.iface)

Max(a, b) == IF a > b THEN a ELSE b

\* The thread is past the busy guard of setFwmarkRule and has not returned.
Installing(t) == thr[t].op = "setFwmarkRule" /\ thr[t].pc \in FwPhases

\* C9: the busy-guard check of setFwmarkRule and the command sequence after
\* it run as one exclusive section per network id: two calls are never both
\* past the guard, and the counter of the network id is not changed by
\* another thread until the sequence ends.
C9_GuardedSectionExclusive ==
  /\ \A t1, t2 \in Threads :
        (t1 # t2 /\ thr[t1].netId = thr[t2].netId)
          => ~(Installing(t1) /\ Installing(t2))
  /\ \A t \in Threads :
        Installing(t) => CountOf(mNetIdRuleCount, thr[t].netId) = 0

IfaceOps ==
  {"addRoute", "removeRoute", "addFwmarkRule", "removeFwmarkRule",
   "addFwmarkRoute", "removeFwmarkRoute", "addUidRule", "removeUidRule"}

\* C10: an operation given an interface whose network id cannot be resolved
\* aborts with a failure and no side effect: no command is run, the counter
\* is unchanged and the identity registry is not called.
C10_UnknownIfaceAborts ==
  (last.op \in IfaceOps /\ ResolveFails(last.iface))
    => /\ last.ret # 0
       /\ last.log = <<>>
       /\ last.reg = <<>>
       /\ mNetIdRuleCount = last.cnt0

\* The counter after one increment (add) or one decrement (del) of netId.
Bumped(cnt0, cnt, netId, action) ==
  /\ CountOf(cnt, netId) = IF action = ADD THEN CountOf(cnt0, netId) + 1
                                           ELSE Max(CountOf(cnt0, netId) - 1, 0)
  /\ \A n \in NetIds \ {netId} : CountOf(cnt, n) = CountOf(cnt0, n)
  /\ DOMAIN cnt = {n \in NetIds : CountOf(cnt, n) >= 1}

\* C8: an addRoute / removeRoute call either fails (the command failed: -1,
\* errno ENODEV, one OperationFailed message, counter unchanged) or succeeds
\* (the command succeeded: the counter of the network id incremented or
\* decremented once, 0, one CommandOkay message), never a mix; modifyFromRule
\* likewise either returns -1 with the counter unchanged or 0 with it changed.
C8_FailureXorMutation ==
  /\ last.op \in {"addRoute", "removeRoute"} =>
        /\ Len(last.log) = 1
        /\ Len(last.msgs) = 1
        /\ \/ /\ last.log[1].rc # 0
              /\ last.ret = -1 /\ last.errno = ENODEV
              /\ last.msgs[1].code = "OperationFailed"
              /\ mNetIdRuleCount = last.cnt0
           \/ /\ last.log[1].rc = 0
              /\ last.ret = 0
              /\ last.msgs[1].code = "CommandOkay"
              /\ Bumped(last.cnt0, mNetIdRuleCount, last.netId, last.action)
  /\ last.op = "modifyFromRule" =>
        /\ Len(last.log) = 1
        /\ \/ /\ last.log[1].rc # 0
              /\ last.ret = -1
              /\ mNetIdRuleCount = last.cnt0
           \/ /\ last.log[1].rc = 0
              /\ last.ret = 0
              /\ Bumped(last.cnt0, mNetIdRuleCount, last.netId, last.action)

C8_Witness ==
  /\ last.op = "removeRoute"
  /\ last.ret = 0
  /\ last.msgs[1].code = "CommandOkay"
  /\ CountOf(last.cnt0, last.netId) = 2
  /\ CountOf(mNetIdRuleCount, last.netId) = 1

UidOps == {"addUidRule", "removeUidRule"}

\* C11: an addUidRule / removeUidRule call asks the identity registry once,
\* for the range and the interface's network id (0 on remove); if the
\* registry refuses, the call returns -1 with errno EINVAL and runs no
\* command; the owner-match command is issued only after the registry
\* accepted, and the call returns its status.
C11_RegistryFirst ==
  [][last'.op \in UidOps =>
       /\ Len(last'.reg) = 1
       /\ \A q \in {last'.reg[1]} :
            /\ q[3] = IF last'.action = ADD THEN last'.netId ELSE 0
            /\ \A a \in {setNetworkForUidRange(mUidMap, q[1], q[2], q[3])} :
                 /\ mUidMap' = a.uid
                 /\ ~a.ok => /\ last'.ret = -1
                             /\ last'.errno = EINVAL
                             /\ last'.log = <<>>
                             /\ k' = k
                 /\ a.ok => /\ Len(last'.log) = 1
                            /\ last'.log[1].cmd.name = "uid_rule"
                            /\ last'.ret = last'.log[1].rc]_vars

\* The registry refused an overlapping range.
C11_Witness ==
  /\ last.op = "addUidRule"
  /\ Len(last.reg) = 1
  /\ last.ret = -1
  /\ last.errno = EINVAL
  /\ last.log = <<>>
  /\ mUidMap # {}

HostOps == {"addHostExemption", "removeHostExemption"}

HostTarget(host) == IF HasColon(host) THEN V6 ELSE V4

\* Copies of the host's PROTECT_MARK rule in the exempt chain.
MarkCopies(kk, host) ==
  CountIn(Mangle(kk)[LOCAL_MANGLE_EXEMPT], ExemptMarkRule(HostTarget(host), host))

\* Copies of the host's EXEMPT_PRIO rule to table main.
ExemptCopies(kk, host) ==
  Copies(kk.rules, [fam |-> IF HasColon(host) THEN "-6" ELSE "-4", prio |-> EXEMPT_PRIO,
                    sel |-> "to", mark |-> 0, addr |-> host, table |-> MainTable])

ExactlyOneEffect(kk, host) == (MarkCopies(kk, host) > 0) # (ExemptCopies(kk, host) > 0)

\* addHostExemption then removeHostExemption, every command behaving normally.
ExemptThenUnexempt(host) ==
  Then(Start({}), LAMBDA s :
  Then(addHostExemption(s, host), LAMBDA a :
  Then(Call(a.k, a.cnt, a.uid, {}), LAMBDA s2 :
  Then(removeHostExemption(s2, host), LAMBDA d : [add |-> a, remove |-> d]))))

MarkReported(u) == getUidMark(Start({}), u).msgs[1].text

\* The table index and the fwmark that addFwmarkRule uses for the interface.
EnableMarks(iface) ==
  {c.cmd.table : c \in {fwmarkBody(Start({}), iface, TRUE, getNetworkId(iface)).log[1]}}
    \cup {c.cmd.mark : c \in {fwmarkBody(Start({}), iface, TRUE, getNetworkId(iface)).log[2]}}

\* C13: after addUidRule succeeded for a range on an interface with network
\* id n, the range is bound to n, and as long as a range is bound to n
\* getUidMark reports BASE_TABLE_NUMBER + n for every uid in it, the value
\* addFwmarkRule uses as table index and fwmark for that interface.
C13_MarkOfBoundUid ==
  /\ (last.op = "addUidRule" /\ last.ret = 0) =>
        [uid_start |-> last.reg[1][1], uid_end |-> last.reg[1][2],
         netId |-> last.netId] \in mUidMap
  /\ \A e \in mUidMap : \A u \in Uids :
        (e.uid_start <= u /\ u <= e.uid_end) =>
          /\ MarkReported(u) = BASE_TABLE_NUMBER + e.netId
          /\ \A iface \in KnownIfaces :
                getNetworkId(iface) = e.netId => EnableMarks(iface) = {MarkReported(u)}
  /\ last.op = "getUidMark" =>
        /\ Len(last.msgs) = 1
        /\ last.msgs[1].code = "GetMarkResult"
        /\ last.log = <<>>
        /\ \A e \in mUidMap :
              (e.uid_start <= last.reg[1][1] /\ last.reg[1][1] <= e.uid_end)
                => last.msgs[1].text = BASE_TABLE_NUMBER + e.netId

\* uid 10500 asks for its mark right after [10000, 10999] was bound to tun0.
C13_Witness ==
  /\ last.op = "getUidMark"
  /\ last.reg[1][1] = 10500
  /\ last.msgs[1].text = 1005
  /\ prev.op = "addUidRule" /\ prev.ret = 0
  /\ [uid_start |-> 10000, uid_end |-> 10999, netId |-> 5] \in mUidMap

\* C14: for every counter state and network id, an increment followed by a
\* decrement gives back exactly the map there was, the entry absent again if
\* it was absent; a decrement of an absent network id changes nothing.
C14_IncDecRoundTrip ==
  /\ \A n \in NetIds \cup {7} :
        /\ modifyRuleCount(modifyRuleCount(mNetIdRuleCount, n, ADD), n, DEL)
             = mNetIdRuleCount
        /\ CountOf(modifyRuleCount(mNetIdRuleCount, n, ADD), n)
             = CountOf(mNetIdRuleCount, n) + 1
        /\ n \notin DOMAIN mNetIdRuleCount
             => modifyRuleCount(mNetIdRuleCount, n, DEL) = mNetIdRuleCount
  /\ (last.action = ADD /\ mNetIdRuleCount # last.cnt0)
       => modifyRuleCount(mNetIdRuleCount, last.netId, DEL) = last.cnt0

\* A call has just created the entry of a network id, and a decrement
\* would take the map back to having none.
C14_Witness ==
  /\ last.op = "addRoute"
  /\ last.ret = 0
  /\ last.netId \notin DOMAIN last.cnt0
  /\ CountOf(mNetIdRuleCount, last.netId) = 1
  /\ modifyRuleCount(mNetIdRuleCount, last.netId, DEL) = last.cnt0

\* Position of the first command of that name in the call's log, 0 if none.
LogIndex(l, name) ==
  IF name \in LogNames(l)
  THEN CHOOSE i \in 1..Len(l.log) :
         l.log[i].cmd.name = name /\ \A j \in 1..(i-1) : l.log[j].cmd.name # name
  ELSE 0

\* C15: a removeFwmarkRule call that reaches the chain teardown issues, one
\* after the other and once each, the delete of the jump rule from the
\* master chain, the flush of the interface's chain and its destruction;
\* when the jump delete and the destruction succeeded, neither the chain nor
\* a jump to it is left.
C15_TeardownOrder ==
  (last.op = "removeFwmarkRule"
     /\ {"jump_delete", "chain_flush", "chain_delete"} \cap LogNames(last) # {})
    => \A i \in {LogIndex(last, "jump_delete")} :
       \A chain_str \in {LOCAL_MANGLE_IFACE_FORMAT(last.iface)} :
         /\ i > 0 /\ i + 2 <= Len(last.log)
         /\ last.log[i].cmd =
               IptCmd("jump_delete", V4V6, "mangle", "-D", LOCAL_MANGLE_OUTPUT, 0,
                      JumpRule(tableFor(last.netId), chain_str))
         /\ last.log[i+1].cmd =
               IptCmd("chain_flush", V4V6, "mangle", "-F", chain_str, 0, NoRule)
         /\ last.log[i+2].cmd =
               IptCmd("chain_delete", V4V6, "mangle", "-X", chain_str, 0, NoRule)
         /\ \A j \in (1..Len(last.log)) \ {i, i+1, i+2} :
               last.log[j].cmd.name
                 \notin {"jump_delete", "chain_flush", "chain_delete"}
         /\ (last.log[i].rc = 0 /\ last.log[i+2].rc = 0)
               => (~HasChain(k, last.iface) /\ ~HasJump(k, last.iface))

\* The three teardown commands ran and succeeded.
C15_Witness ==
  /\ last.op = "removeFwmarkRule"
  /\ Succeeded(last, "jump_delete")
  /\ Succeeded(last, "chain_flush")
  /\ Succeeded(last, "chain_delete")
  /\ LogIndex(last, "jump_delete") + 2 = LogIndex(last, "chain_delete")
  /\ ~HasChain(k, last.iface)

\* C17: modifyLocalRoute updates the counter for its action before it runs
\* the route command, so the command runs with the counter already changed,
\* and the change stands whatever the command's status, which the call
\* returns.
C17_LocalRouteCountsFirst ==
  last.op = "modifyLocalRoute" =>
    /\ Len(last.log) = 1
    /\ last.log[1].cmd.name = "local"
    /\ last.log[1].cmd.action = last.action
    /\ Bumped(last.cnt0, last.log[1].cnt, last.netId, last.action)
    /\ mNetIdRuleCount = last.log[1].cnt
    /\ last.ret = last.log[1].rc

\* A failed add left the count incremented.
C17_Witness ==
  /\ last.op = "modifyLocalRoute"
  /\ last.action = ADD
  /\ last.ret # 0
  /\ CountOf(mNetIdRuleCount, last.netId) = CountOf(last.cnt0, last.netId) + 1

\* A mark-match jump rule, as addFwmarkRule inserts.
IsJumpRule(r) == r.match = "mark" /\ r.opt = "-g"

\* A UID owner-match rule, as addUidRule appends.
IsUidRule(r) == r.match = "owner" /\ r.opt = "-g"

\* C16: after the bootstrap, whatever addFwmarkRule, removeFwmarkRule,
\* addUidRule and removeUidRule calls follow, the master mangle output chain
\* keeps the PROTECT_MARK RETURN rule at position 1 and the legacy-owner
\* RETURN rule at position 2, and every mark-match jump rule stands before
\* every UID owner-match rule.
C16_MasterChainOrder ==
  \A ch \in {Mangle(k)[LOCAL_MANGLE_OUTPUT]} :
    /\ Len(ch) >= 2
    /\ ch[1] = ProtectReturnRule
    /\ ch[2] = VpnReturnRule
    /\ \A i \in 3..Len(ch) : IsJumpRule(ch[i]) \/ IsUidRule(ch[i])
    /\ \A i, j \in 1..Len(ch) : (IsJumpRule(ch[i]) /\ IsUidRule(ch[j])) => i < j

\* A jump rule was inserted into a master chain that already held a UID rule.
C16_Witness ==
  /\ last.op = "addFwmarkRule"
  /\ Succeeded(last, "jump_insert")
  /\ \E j \in 1..Len(Mangle(k)[LOCAL_MANGLE_OUTPUT]) :
        IsUidRule(Mangle(k)[LOCAL_MANGLE_OUTPUT][j])
  /\ prev.op = "addUidRule" /\ prev.ret = 0

\* The kernel with the master chain holding the two RETURN rules and the
\* exempt chain empty, everything else as in kk.
Hooked(kk) ==
  [kk EXCEPT !.ipt[<<V4V6, "mangle">>][LOCAL_MANGLE_OUTPUT] =
               <<ProtectReturnRule, VpnReturnRule>>,
             !.ipt[<<V4V6, "mangle">>][LOCAL_MANGLE_EXEMPT] = <<>>]

\* setupIptablesHooks twice, every command behaving normally.
BootstrapTwice ==
  Then(Start({}), LAMBDA s :
  Then(setupIptablesHooks(s), LAMBDA a :
  Then(Call(a.k, a.cnt, a.uid, {}), LAMBDA s2 :
  Then(setupIptablesHooks(s2), LAMBDA b : [once |-> a, twice |-> b]))))

\* C18: setupIptablesHooks always issues its four commands (flush of the
\* master chain, flush of the exempt chain, append of the PROTECT_MARK
\* RETURN rule, append of the legacy-owner RETURN rule) and returns non-zero
\* exactly when one of them failed; when all succeed, whatever the chains
\* held before, the exempt chain is empty and the master chain holds exactly
\* the two RETURN rules in that order, so a second run changes nothing.
C18_BootstrapIdempotent ==
  /\ last.op = "setupIptablesHooks" =>
        /\ [i \in 1..Len(last.log) |-> last.log[i].cmd.name]
             = <<"flush_output", "flush_exempt", "protect_return", "vpn_return">>
        /\ last.log[1].cmd.chain = LOCAL_MANGLE_OUTPUT
        /\ last.log[2].cmd.chain = LOCAL_MANGLE_EXEMPT
        /\ last.ret # 0 <=> \E i \in 1..Len(last.log) : last.log[i].rc # 0
        /\ last.ret = 0 => k = Hooked(k)
  /\ \A r \in {BootstrapTwice} :
        /\ r.once.ret = 0
        /\ r.once.k = Hooked(k)
        /\ r.twice.ret = 0
        /\ r.twice.k = r.once.k

\* The bootstrap ran, all commands succeeding, over a master chain into
\* which a jump rule had been inserted and an exempt chain that held a mark
\* rule.
C18_Witness ==
  /\ last.op = "setupIptablesHooks"
  /\ last.ret = 0
  /\ HasChain(k, "tun0")
  /\ ~HasJump(k, "tun0")
  /\ \E h \in Hosts : ExemptCopies(k, h) > 0 /\ MarkCopies(k, h) = 0
  /\ Bootstrapped(k)

\* A disable failed after at least one of its commands had succeeded, the
\* network has no manual reference, and no command fails spuriously any more.
PartialDisable ==
  /\ last.op = "removeFwmarkRule"
  /\ last.ret # 0
  /\ \E i \in 1..Len(last.log) : last.log[i].rc = 0
  /\ CountOf(mNetIdRuleCount, last.netId) = 0
  /\ faultsLeft = 0

\* C19: from a state left by a removeFwmarkRule call that failed after some
\* of its commands succeeded, retrying removeFwmarkRule with every command
\* behaving normally leads to the clean state: no jump rule, chain, fwmark
\* rule, default route, NAT or REJECT rule of the interface is left.
C19_RetryReachesClean ==
  \A iface \in KnownIfaces :
    (PartialDisable /\ last.iface = iface) ~> FwClean(k, iface)

\* The operations that are not supposed to touch the rule counter.
FrameOps ==
  FwmarkOps \cup UidOps \cup HostOps
    \cup {"addFwmarkRoute", "removeFwmarkRoute", "setupIptablesHooks"}

\* C20: addFwmarkRule, removeFwmarkRule, add/removeFwmarkRoute,
\* add/removeUidRule, add/removeHostExemption and setupIptablesHooks leave
\* the rule counter as it was, at every command they run and when they
\* return, whatever the outcome; so a second addFwmarkRule on the same
\* interface, with no manual route on the network, is not refused by the
\* busy guard and issues the install commands again, all of them when no
\* command fails spuriously.
C20_CounterFrame ==
  /\ last.op \in FrameOps =>
        /\ mNetIdRuleCount = last.cnt0
        /\ \A i \in 1..Len(last.log) : last.log[i].cnt = last.cnt0
  /\ (/\ last.op = "addFwmarkRule" /\ prev.op = "addFwmarkRule"
      /\ prev.iface = last.iface /\ prev.ret = 0
      /\ CountOf(last.cnt0, last.netId) = 0)
       => /\ last.errno # EBUSY
          /\ last.log # <<>>
          /\ last.log[1].cmd.name = "route_cmd"
          /\ last.faults = {} => FwmarkSteps("addFwmarkRule") \subseteq LogNames(last)

\* The second of two addFwmarkRule calls in a row ran the whole sequence.
C20_Witness ==
  /\ last.op = "addFwmarkRule" /\ prev.op = "addFwmarkRule"
  /\ prev.iface = last.iface /\ prev.ret = 0
  /\ mNetIdRuleCount = EmptyMap
  /\ Succeeded(last, "jump_insert")
  /\ Failed(last, "chain_new")
  /\ Copies(k.rules, FwmarkRuleRec("-4", tableFor(last.netId))) = 2

====
